---- MODULE Spec2Model ----
(***************************************************************************)
(* Ledger Mutation & Audit Engine of the CICS banking port.                *)
(*                                                                         *)
(* The store is the SQLite database of database.py: three tables, one      *)
(* write lock, snapshot reads of the last committed state.  A request of   *)
(* api.py owns one connection (_get_db); the engine functions of           *)
(* services.py run on it statement by statement, so that two requests      *)
(* interleave between their SELECTs and their first INSERT/UPDATE/DELETE.  *)
(*                                                                         *)
(* Conventions.  An Optional value (a fetched row or None, an argument or  *)
(* None) is a sequence of length 0 or 1.  A name is the sequence of its    *)
(* whitespace-delimited tokens (str.split()).  An f-string description is  *)
(* the pair <<text, number>>.  Dates and times are the symbolic values     *)
(* Today and Now: no control flow reads the clock.  The accounts columns   *)
(* last_statement and next_statement are never written and are left out.   *)
(***************************************************************************)
EXTENDS Integers, Sequences, FiniteSets, TLC

VARIABLES
    db,      \* the committed database: customers, accounts, transactions, seq
    work,    \* the uncommitted database of the connection holding the write lock
    lock,    \* the connection holding SQLite's write lock, 0 when free
    pc,      \* pc[c]: where request c stands in its handler
    req,     \* req[c]: the operation and arguments of request c
    loc,     \* loc[c]: the engine function's local variables
    out,     \* out[c]: what the engine function returned or raised
    nreq     \* requests started so far

vars == <<db, work, lock, pc, req, loc, out, nreq>>

-----------------------------------------------------------------------------
(* Bounds of the model.                                                    *)

MaxReq == 2

Conns == {1, 2}

(* Program constants.                                                      *)

SORT_CODE == "987654"

MAX_ACCOUNTS_PER_QUERY == 20

\* services.get_customer's sentinel is 9999999999; TLC's integers end at
\* 2^31 - 1, which stands for it here (only number >= CUSTOMER_LAST is read).
CUSTOMER_LAST == 2147483647

ACCOUNT_LAST == 99999999

VALID_TITLES ==
    {"Mr", "Mrs", "Miss", "Ms", "Dr", "Drs", "Professor", "Lord", "Sir", "Lady", ""}

VALID_ACCOUNT_TYPES == {"CURRENT", "SAVING", "LOAN", "MORTGAGE", "ISA"}

DEFAULT_RATES(account_type) ==
    CASE account_type = "ISA"      -> [interest |-> 250, overdraft |-> 0]
      [] account_type = "SAVING"   -> [interest |-> 150, overdraft |-> 0]
      [] account_type = "CURRENT"  -> [interest |-> 0,   overdraft |-> 0]
      [] account_type = "LOAN"     -> [interest |-> 750, overdraft |-> 0]
      [] account_type = "MORTGAGE" -> [interest |-> 450, overdraft |-> 0]

Today == "today"

Now == "now"

None == <<>>

Some(v) == <<v>>

-----------------------------------------------------------------------------
(* Helpers over finite sets of rows.                                       *)

Max(S) == CHOOSE x \in S : \A y \in S : y <= x

RECURSIVE OrderByNumber(_)
OrderByNumber(rows) ==
    IF rows = {} THEN <<>>
    ELSE LET first == CHOOSE r \in rows : \A q \in rows : r.number <= q.number
         IN  <<first>> \o OrderByNumber(rows \ {first})

\* A mutant of Limit: the page holds one row more than asked for.
LimitInclusive(rows, n) ==
    SubSeq(rows, 1, IF Len(rows) < n + 1 THEN Len(rows) ELSE n + 1)

Limit(rows, n) == SubSeq(rows, 1, IF Len(rows) < n THEN Len(rows) ELSE n)

FetchOne(rows) == IF rows = {} THEN None ELSE Some(CHOOSE r \in rows : TRUE)

-----------------------------------------------------------------------------
(* dao.py: CustomerDAO.  A store s is one consistent view of the database. *)

CustomerDAO_get(s, sortcode, number) ==
    FetchOne({r \in s.customers : r.sortcode = sortcode /\ r.number = number})

\* ORDER BY RANDOM() LIMIT 1: the set of rows the query may return.
CustomerDAO_get_random(s, sortcode) ==
    {r \in s.customers : r.sortcode = sortcode}

\* A mutant of CustomerDAO_get_last: ORDER BY number without DESC.
CustomerDAO_get_last_Ascending(s, sortcode) ==
    LET rows == {r \in s.customers : r.sortcode = sortcode}
    IN  IF rows = {} THEN None
        ELSE Some(CHOOSE r \in rows : \A q \in rows : q.number >= r.number)

CustomerDAO_get_last(s, sortcode) ==
    LET rows == {r \in s.customers : r.sortcode = sortcode}
    IN  IF rows = {} THEN None
        ELSE Some(CHOOSE r \in rows : \A q \in rows : q.number <= r.number)

CustomerDAO_create(s, sortcode, number, name, address, date_of_birth, credit_score, cs_review_date) ==
    [s EXCEPT !.customers = @ \cup
        {[sortcode |-> sortcode, number |-> number, name |-> name,
          address |-> address, date_of_birth |-> date_of_birth,
          credit_score |-> credit_score, cs_review_date |-> cs_review_date]}]

\* A mutant of CustomerDAO_update: the statement has no WHERE on the number.
CustomerDAO_update_AllRows(s, sortcode, number, name, address) ==
    [s EXCEPT !.customers =
        {IF r.sortcode = sortcode
         THEN [r EXCEPT !.name = IF name # None THEN name[1] ELSE @,
                        !.address = IF address # None THEN address[1] ELSE @]
         ELSE r : r \in @}]

CustomerDAO_update(s, sortcode, number, name, address) ==
    [s EXCEPT !.customers =
        {IF r.sortcode = sortcode /\ r.number = number
         THEN [r EXCEPT !.name = IF name # None THEN name[1] ELSE @,
                        !.address = IF address # None THEN address[1] ELSE @]
         ELSE r : r \in @}]

CustomerDAO_delete(s, sortcode, number) ==
    [s EXCEPT !.customers =
        {r \in @ : ~(r.sortcode = sortcode /\ r.number = number)}]

\* A mutant of CustomerDAO_next_number: the number after the next one.
CustomerDAO_next_number_Skips(s, sortcode) ==
    Max({r.number : r \in {x \in s.customers : x.sortcode = sortcode}} \cup {0}) + 2

CustomerDAO_next_number(s, sortcode) ==
    LET nums == {r.number : r \in {q \in s.customers : q.sortcode = sortcode}}
    IN  (IF nums = {} THEN 0 ELSE Max(nums)) + 1

-----------------------------------------------------------------------------
(* dao.py: AccountDAO.                                                     *)

AccountDAO_get(s, sortcode, number) ==
    FetchOne({r \in s.accounts : r.sortcode = sortcode /\ r.number = number})

AccountDAO_get_last(s, sortcode) ==
    LET rows == {r \in s.accounts : r.sortcode = sortcode}
    IN  IF rows = {} THEN None
        ELSE Some(CHOOSE r \in rows : \A q \in rows : q.number <= r.number)

AccountDAO_get_by_customer(s, sortcode, customer_number) ==
    Limit(OrderByNumber({r \in s.accounts :
                            r.sortcode = sortcode
                            /\ r.customer_number = customer_number}),
          MAX_ACCOUNTS_PER_QUERY)

AccountDAO_create(s, sortcode, number, customer_number, account_type, interest_rate, opened, overdraft_limit) ==
    [s EXCEPT !.accounts = @ \cup
        {[sortcode |-> sortcode, number |-> number,
          customer_number |-> customer_number, account_type |-> account_type,
          interest_rate |-> interest_rate, opened |-> opened,
          overdraft_limit |-> overdraft_limit,
          available_balance |-> 0, actual_balance |-> 0]}]

AccountDAO_update(s, sortcode, number, account_type, interest_rate, overdraft_limit) ==
    [s EXCEPT !.accounts =
        {IF r.sortcode = sortcode /\ r.number = number
         THEN [r EXCEPT
                 !.account_type = IF account_type # None THEN account_type[1] ELSE @,
                 !.interest_rate = IF interest_rate # None THEN interest_rate[1] ELSE @,
                 !.overdraft_limit =
                     IF overdraft_limit # None THEN overdraft_limit[1] ELSE @]
         ELSE r : r \in @}]

\* A mutant of AccountDAO_update_balance: only the available balance is stored.
AccountDAO_update_balance_AvailableOnly(s, sortcode, number, available_balance, actual_balance) ==
    [s EXCEPT !.accounts =
        {IF a.sortcode = sortcode /\ a.number = number
         THEN [a EXCEPT !.available_balance = available_balance]
         ELSE a : a \in @}]

AccountDAO_update_balance(s, sortcode, number, available_balance, actual_balance) ==
    [s EXCEPT !.accounts =
        {IF r.sortcode = sortcode /\ r.number = number
         THEN [r EXCEPT !.available_balance = available_balance,
                        !.actual_balance = actual_balance]
         ELSE r : r \in @}]

AccountDAO_delete(s, sortcode, number) ==
    [s EXCEPT !.accounts =
        {r \in @ : ~(r.sortcode = sortcode /\ r.number = number)}]

\* A mutant of AccountDAO_next_number: one more than the number of rows.
AccountDAO_next_number_Count(s, sortcode) ==
    Cardinality({r \in s.accounts : r.sortcode = sortcode}) + 1

AccountDAO_next_number(s, sortcode) ==
    LET nums == {r.number : r \in {q \in s.accounts : q.sortcode = sortcode}}
    IN  (IF nums = {} THEN 0 ELSE Max(nums)) + 1

-----------------------------------------------------------------------------
(* dao.py: TransactionDAO, and services._audit.  The key is AUTOINCREMENT: *)
(* one more than the largest key the table ever held (sqlite_sequence, a   *)
(* row of the same database, rolled back with it).                         *)

TransactionDAO_create(s, sortcode, account_number, trans_date, trans_time, trans_type, description, amount) ==
    [s EXCEPT !.seq = @ + 1,
              !.transactions = @ \cup
        {[id |-> s.seq + 1, sortcode |-> sortcode,
          account_number |-> account_number, trans_date |-> trans_date,
          trans_time |-> trans_time, trans_type |-> trans_type,
          description |-> description, amount |-> amount]}]

Audit(s, sortcode, account_number, trans_type, description, amount) ==
    TransactionDAO_create(s, sortcode, account_number, Today, Now,
                          trans_type, description, amount)

-----------------------------------------------------------------------------
(* database.py SCHEMA: what makes an INSERT or DELETE raise IntegrityError *)
(* (PRIMARY KEY, and FOREIGN KEY with PRAGMA foreign_keys=ON).             *)

\* A mutant of CustomerKeyTaken: the customers table has no primary key.
CustomerKeyFree(s, sortcode, number) == FALSE

CustomerKeyTaken(s, sortcode, number) ==
    \E r \in s.customers : r.sortcode = sortcode /\ r.number = number

AccountKeyTaken(s, sortcode, number) ==
    \E r \in s.accounts : r.sortcode = sortcode /\ r.number = number

\* A mutant of HasAccounts: the accounts' foreign key is not enforced.
HasAccountsUnchecked(s, sortcode, customer_number) == FALSE

\* accounts(sortcode, customer_number) REFERENCES customers(sortcode, number)
HasAccounts(s, sortcode, customer_number) ==
    \E r \in s.accounts :
        r.sortcode = sortcode /\ r.customer_number = customer_number

-----------------------------------------------------------------------------
(* The populations a run starts from.  banking.db outlives the process     *)
(* (init_db only creates missing tables), so a run starts from the empty   *)
(* database or from rows loaded earlier, as seed.generate_test_data and    *)
(* the tests' _setup_account load them: customers and accounts through the *)
(* DAOs, balances through update_balance, no audit entry.                  *)

EmptyStore == [customers |-> {}, accounts |-> {}, transactions |-> {}, seq |-> 0]

SeedCustomer(s, name) ==
    CustomerDAO_create(s, SORT_CODE, CustomerDAO_next_number(s, SORT_CODE),
                       name, "1 Oak Ave", "1990-01-15", 500, Today)

SeedAccount(s, customer_number, a) ==
    LET acc_num == AccountDAO_next_number(s, SORT_CODE)
    IN  AccountDAO_update_balance(
            AccountDAO_create(s, SORT_CODE, acc_num, customer_number, a.type,
                              DEFAULT_RATES(a.type).interest, Today, a.overdraft),
            SORT_CODE, acc_num, a.available, a.actual)

RECURSIVE SeedAccounts(_, _, _)
SeedAccounts(s, customer_number, as) ==
    IF as = <<>> THEN s
    ELSE SeedAccounts(SeedAccount(s, customer_number, Head(as)),
                      customer_number, Tail(as))

Acc(type, overdraft, available, actual) ==
    [type |-> type, overdraft |-> overdraft, available |-> available,
     actual |-> actual]

\* The account lists of the seeded customer: none, two ordinary accounts (the
\* first with an overdraft limit as update_account sets one), and a pair
\* holding the two debit-barred types.
Portfolios ==
    { <<>>,
      <<Acc("CURRENT", 5, 1, 1), Acc("LOAN", 0, 2, 2)>>,
      <<Acc("MORTGAGE", 0, 2, 2), Acc("SAVING", 0, 3, 3)>> }

\* What create_customer and create_account leave once committed.
CreatedCustomer(s, name, score) ==
    LET number == CustomerDAO_next_number(s, SORT_CODE)
    IN  Audit(CustomerDAO_create(s, SORT_CODE, number, name, "", "", score, Today),
              SORT_CODE, 0, "OCC", <<"Create customer", number>>, 0)

CreatedAccount(s, customer_number, account_type) ==
    LET number == AccountDAO_next_number(s, SORT_CODE)
    IN  Audit(AccountDAO_create(s, SORT_CODE, number, customer_number, account_type,
                                DEFAULT_RATES(account_type).interest, Today,
                                DEFAULT_RATES(account_type).overdraft),
              SORT_CODE, number, "OCA",
              <<"Create account for cust", customer_number>>, 0)

RECURSIVE CreatedAccounts(_, _, _, _)
CreatedAccounts(s, customer_number, account_type, n) ==
    IF n = 0 THEN s
    ELSE CreatedAccounts(CreatedAccount(s, customer_number, account_type),
                         customer_number, account_type, n - 1)

\* A customer for whom one account more than a page of get_by_customer holds
\* has been opened.
BulkStore ==
    CreatedAccounts(CreatedCustomer(EmptyStore, <<"Mr", "A">>, 500), 1,
                    "CURRENT", MAX_ACCOUNTS_PER_QUERY + 1)

InitialStores ==
    {EmptyStore, BulkStore} \cup
    {SeedAccounts(SeedCustomer(EmptyStore, <<"Mr", "A">>), 1, p) : p \in Portfolios}

-----------------------------------------------------------------------------
(* Requests: the routes of api.py with the arguments the model draws.      *)

ServiceErrors ==
    {"CustomerNotFound", "AccountNotFound", "ValidationError", "InsufficientFunds"}

\* random.randint(1, 999): the draws of a probe, the two ends of the range;
\* where the fan-out runs among the other operations, one draw stands for all.
Scores == {1, 999}

AnyScore == {500}

NoReq ==
    [op |-> "none", number |-> 0, to_number |-> 0, amount |-> 0,
     is_debit |-> FALSE, name |-> None, address |-> None,
     account_type |-> None, interest_rate |-> None, overdraft_limit |-> None]

NoLoc ==
    [cust |-> None, acc |-> None, to_acc |-> None, accounts |-> <<>>,
     number |-> 0, score |-> 0,
     futures |-> <<>>, scores |-> <<>>, timed_out |-> FALSE]

NoOut == [status |-> "none", msg |-> <<>>, data |-> <<>>]

GetCustomerReq(n) == [NoReq EXCEPT !.op = "get_customer", !.number = n]

GetAccountReq(n) == [NoReq EXCEPT !.op = "get_account", !.number = n]

GetAccountsByCustomerReq(n) ==
    [NoReq EXCEPT !.op = "get_accounts_by_customer", !.number = n]

CreateCustomerReq(name) ==
    [NoReq EXCEPT !.op = "create_customer", !.name = Some(name),
                  !.address = Some("2 Elm Rd")]

CreateAccountReq(n, type, rate, limit) ==
    [NoReq EXCEPT !.op = "create_account", !.number = n,
                  !.account_type = Some(type), !.interest_rate = rate,
                  !.overdraft_limit = limit]

UpdateCustomerReq(n, name, address) ==
    [NoReq EXCEPT !.op = "update_customer", !.number = n, !.name = name,
                  !.address = address]

UpdateAccountReq(n, type, rate, limit) ==
    [NoReq EXCEPT !.op = "update_account", !.number = n, !.account_type = type,
                  !.interest_rate = rate, !.overdraft_limit = limit]

DeleteAccountReq(n) == [NoReq EXCEPT !.op = "delete_account", !.number = n]

DeleteCustomerReq(n) == [NoReq EXCEPT !.op = "delete_customer", !.number = n]

TransferReq(f, t, a) ==
    [NoReq EXCEPT !.op = "transfer_funds", !.number = f, !.to_number = t,
                  !.amount = a]

DebitCreditReq(n, a, d) ==
    [NoReq EXCEPT !.op = "debit_credit", !.number = n, !.amount = a,
                  !.is_debit = d]

\* The requests drawn when requests are served one at a time.
Requests ==
    {GetCustomerReq(n) : n \in {0, 1, 2, CUSTOMER_LAST - 1, CUSTOMER_LAST}}
    \cup {GetAccountReq(n) : n \in {0, 1, 3, ACCOUNT_LAST - 1, ACCOUNT_LAST,
                                     ACCOUNT_LAST + 1}}
    \cup {GetAccountsByCustomerReq(n) : n \in {1, 2}}
    \cup {CreateCustomerReq(nm) : nm \in {<<"Mr", "B">>, <<"King", "John">>, <<>>}}
    \cup {CreateAccountReq(1, "CURRENT", None, None),
          CreateAccountReq(1, "ISA", None, None),
          CreateAccountReq(1, "SAVING", None, Some(0)),
          CreateAccountReq(1, "MORTGAGE", None, None),
          CreateAccountReq(1, "LOAN", Some(0), Some(5)),
          CreateAccountReq(1, "CHECKING", None, None),
          CreateAccountReq(2, "CURRENT", None, None),
          CreateAccountReq(2, "CHECKING", None, None)}
    \cup {UpdateCustomerReq(1, None, None),
          UpdateCustomerReq(1, Some(<<"Dr", "C">>), None),
          UpdateCustomerReq(1, None, Some("3 Fir Close")),
          UpdateCustomerReq(1, Some(<<"King", "John">>), Some("3 Fir Close")),
          UpdateCustomerReq(2, Some(<<"Dr", "C">>), Some("3 Fir Close"))}
    \cup {UpdateAccountReq(1, None, None, None),
          UpdateAccountReq(1, Some("MORTGAGE"), None, None),
          UpdateAccountReq(1, None, Some(7), Some(5)),
          UpdateAccountReq(1, Some("CHECKING"), Some(7), Some(5)),
          UpdateAccountReq(3, Some("MORTGAGE"), None, None)}
    \cup {DeleteAccountReq(n) : n \in {1, 2, 3}}
    \cup {DeleteCustomerReq(n) : n \in {1, 2}}
    \cup {TransferReq(1, 2, 2), TransferReq(1, 2, -1), TransferReq(2, 1, 1),
          TransferReq(1, 1, 1), TransferReq(1, 3, 1), TransferReq(3, 1, 1),
          TransferReq(3, 3, 1)}
    \cup {DebitCreditReq(1, a, TRUE) : a \in {-1, 1, 2}}
    \cup {DebitCreditReq(1, a, FALSE) : a \in {-1, 1}}
    \cup {DebitCreditReq(2, 1, TRUE), DebitCreditReq(2, 2, TRUE),
          DebitCreditReq(2, 1, FALSE), DebitCreditReq(3, 1, TRUE)}

\* The requests drawn when two requests are served concurrently.
ConcurrentRequests ==
    {GetCustomerReq(1), GetAccountReq(1), GetAccountsByCustomerReq(1),
     CreateCustomerReq(<<"Mr", "B">>),
     CreateAccountReq(1, "CURRENT", None, None),
     UpdateCustomerReq(1, Some(<<"Dr", "C">>), None),
     UpdateAccountReq(1, None, None, Some(5)),
     DeleteAccountReq(1), DeleteAccountReq(2), DeleteCustomerReq(1),
     TransferReq(1, 2, 1), TransferReq(2, 1, 2),
     DebitCreditReq(1, 1, TRUE), DebitCreditReq(1, 2, FALSE)}

-----------------------------------------------------------------------------
(* One connection per request (api._get_db).  Outside a transaction a      *)
(* SELECT reads the last committed state; the first INSERT, UPDATE or      *)
(* DELETE begins the transaction and takes the write lock, and from then   *)
(* on the connection reads its own uncommitted state.                      *)

View(c) == IF lock = c THEN work ELSE db

CanWrite(c) == lock \in {0, c}

Init ==
    /\ db \in InitialStores
    /\ work = db
    /\ lock = 0
    /\ pc = [c \in Conns |-> "idle"]
    /\ req = [c \in Conns |-> NoReq]
    /\ loc = [c \in Conns |-> NoLoc]
    /\ out = [c \in Conns |-> NoOut]
    /\ nreq = 0

\* The route calls the engine function.
Start(c, requests) ==
    /\ pc[c] = "idle"
    /\ nreq < MaxReq
    /\ \E r \in requests :
        /\ req' = [req EXCEPT ![c] = r]
        /\ pc' = [pc EXCEPT ![c] = r.op]
    /\ nreq' = nreq + 1
    /\ UNCHANGED <<db, work, lock, loc, out>>

\* How a step of an engine function ends: at the next statement, with a value,
\* or with an exception.  The route catches a ServiceError (and _get_db then
\* commits); any other exception reaches _get_db's except clause.
Goto(c, label, newloc) ==
    /\ pc' = [pc EXCEPT ![c] = label]
    /\ loc' = [loc EXCEPT ![c] = newloc]
    /\ out' = out

Return(c, data) ==
    /\ pc' = [pc EXCEPT ![c] = "returned"]
    /\ out' = [out EXCEPT ![c] = [status |-> "ok", msg |-> <<>>, data |-> data]]
    /\ loc' = loc

Raise(c, error, msg) ==
    /\ pc' = [pc EXCEPT ![c] =
                IF error \in ServiceErrors THEN "caught" ELSE "raised"]
    /\ out' = [out EXCEPT ![c] = [status |-> error, msg |-> msg, data |-> <<>>]]
    /\ loc' = loc

\* A statement that only reads, and one that writes s as the new uncommitted state.
Reads == UNCHANGED <<db, work, lock, req, nreq>>

Writes(c, s) ==
    /\ work' = s
    /\ lock' = c
    /\ UNCHANGED <<db, req, nreq>>

-----------------------------------------------------------------------------
(* services.py: the read operations.                                       *)

NotFound(what, number) == <<what, number, "not found">>

GetCustomer(c) ==
    /\ pc[c] = "get_customer"
    /\ LET s == View(c)
           number == req[c].number
           found ==
               IF number = 0
               THEN IF CustomerDAO_get_random(s, SORT_CODE) = {} THEN {None}
                    ELSE {Some(r) : r \in CustomerDAO_get_random(s, SORT_CODE)}
               ELSE IF number >= CUSTOMER_LAST
               THEN {CustomerDAO_get_last(s, SORT_CODE)}
               ELSE {CustomerDAO_get(s, SORT_CODE, number)}
       IN  \E cust \in found :
              IF cust = None
              THEN Raise(c, "CustomerNotFound", NotFound("Customer", number))
              ELSE Return(c, cust)
    /\ Reads

GetAccount(c) ==
    /\ pc[c] = "get_account"
    /\ LET s == View(c)
           number == req[c].number
           acc == IF number >= ACCOUNT_LAST
                  THEN AccountDAO_get_last(s, SORT_CODE)
                  ELSE AccountDAO_get(s, SORT_CODE, number)
       IN  IF acc = None
           THEN Raise(c, "AccountNotFound", NotFound("Account", number))
           ELSE Return(c, acc)
    /\ Reads

GetAccountsByCustomer(c) ==
    /\ pc[c] = "get_accounts_by_customer"
    /\ LET cust == CustomerDAO_get(View(c), SORT_CODE, req[c].number)
       IN  IF cust = None
           THEN Raise(c, "CustomerNotFound", NotFound("Customer", req[c].number))
           ELSE Goto(c, "AccountDAO.get_by_customer", [loc[c] EXCEPT !.cust = cust])
    /\ Reads

GetAccountsByCustomerList(c) ==
    /\ pc[c] = "AccountDAO.get_by_customer"
    /\ Return(c, AccountDAO_get_by_customer(View(c), SORT_CODE, req[c].number))
    /\ Reads

-----------------------------------------------------------------------------
(* services.py: create_customer and create_account.                        *)

\* A mutant of Title: an empty name has no title at all.
TitleOfNonEmpty(name) == IF name = <<>> THEN "none" ELSE name[1]

\* name.split()[0] if name.strip() else ""
Title(name) == IF name = <<>> THEN "" ELSE name[1]

CreateCustomer(c) ==
    /\ pc[c] = "create_customer"
    /\ LET title == Title(req[c].name[1])
       IN  IF title \notin VALID_TITLES
           THEN Raise(c, "ValidationError", <<"Invalid title", title>>)
           ELSE Goto(c, "credit_check",
                     [loc[c] EXCEPT !.number =
                         CustomerDAO_next_number(View(c), SORT_CODE)])
    /\ Reads

\* credit.credit_check.  The pool runs the probes beside the caller, who takes
\* the futures' results in submission order, each with its own timeout, and
\* leaves the with block, on a value or on an exception, through
\* pool.shutdown(wait=True).
NUM_AGENCIES == 5

RECURSIVE Sum(_)
Sum(scores) == IF scores = <<>> THEN 0 ELSE Head(scores) + Sum(Tail(scores))

\* A mutant of Mean: rounded up.
MeanRoundedUp(scores) == (Sum(scores) + Len(scores) - 1) \div Len(scores)

\* sum(scores) // len(scores)
Mean(scores) == Sum(scores) \div Len(scores)

CreditLabels == {"credit_check", "credit_check.result", "credit_check.shutdown"}

\* futures = [pool.submit(single_agency, i) for i in range(num_agencies)]
CreditCheckSubmit(c) ==
    /\ pc[c] = "credit_check"
    /\ Goto(c, "credit_check.result",
            [loc[c] EXCEPT !.futures = [i \in 1..NUM_AGENCIES |-> None],
                           !.scores = <<>>, !.timed_out = FALSE])
    /\ Reads

\* single_agency: a probe ends its sleep and returns its draw.
SingleAgency(c, i, draws) ==
    /\ pc[c] \in {"credit_check.result", "credit_check.shutdown"}
    /\ loc[c].futures[i] = None
    /\ \E score \in draws :
          Goto(c, pc[c], [loc[c] EXCEPT !.futures[i] = Some(score)])
    /\ Reads

\* f.result(timeout=10) of the next future, which is done.
CreditCheckResult(c) ==
    /\ pc[c] = "credit_check.result"
    /\ LET k == Len(loc[c].scores) + 1
       IN  /\ loc[c].futures[k] # None
           /\ Goto(c, IF k = NUM_AGENCIES THEN "credit_check.shutdown"
                                          ELSE "credit_check.result",
                   [loc[c] EXCEPT !.scores = Append(@, loc[c].futures[k][1])])
    /\ Reads

\* f.result(timeout=10) of the next future, which is still running when the
\* timeout ends: TimeoutError leaves the comprehension.
CreditCheckTimesOut(c) ==
    /\ pc[c] = "credit_check.result"
    /\ loc[c].futures[Len(loc[c].scores) + 1] = None
    /\ Goto(c, "credit_check.shutdown", [loc[c] EXCEPT !.timed_out = TRUE])
    /\ Reads

\* A mutant of CreditCheckReturns: after a timeout, the scores in hand are
\* averaged.
CreditCheckReturnsPartial(c) ==
    /\ pc[c] = "credit_check.shutdown"
    /\ \A i \in 1..NUM_AGENCIES : loc[c].futures[i] # None
    /\ IF loc[c].scores = <<>>
       THEN Raise(c, "TimeoutError", <<>>)
       ELSE Goto(c, "CustomerDAO.create",
                 [loc[c] EXCEPT !.score = Mean(loc[c].scores)])
    /\ Reads

\* The with block ends once every worker has ended; then the mean is returned
\* or the TimeoutError goes on to the caller.
CreditCheckReturns(c) ==
    /\ pc[c] = "credit_check.shutdown"
    /\ \A i \in 1..NUM_AGENCIES : loc[c].futures[i] # None
    /\ IF loc[c].timed_out
       THEN Raise(c, "TimeoutError", <<>>)
       ELSE Goto(c, "CustomerDAO.create",
                 [loc[c] EXCEPT !.score = Mean(loc[c].scores)])
    /\ Reads

CreateCustomerInsert(c) ==
    /\ pc[c] = "CustomerDAO.create"
    /\ CanWrite(c)
    /\ LET s == View(c)
           number == loc[c].number
           s1 == CustomerDAO_create(s, SORT_CODE, number, req[c].name[1],
                                    req[c].address[1], "", loc[c].score, Today)
           s2 == Audit(s1, SORT_CODE, 0, "OCC", <<"Create customer", number>>, 0)
       IN  IF CustomerKeyTaken(s, SORT_CODE, number)
           THEN Raise(c, "IntegrityError", <<"customers">>) /\ Writes(c, s)
           ELSE Return(c, CustomerDAO_get(s2, SORT_CODE, number)) /\ Writes(c, s2)

CreateAccount(c) ==
    /\ pc[c] = "create_account"
    /\ LET account_type == req[c].account_type[1]
           cust == CustomerDAO_get(View(c), SORT_CODE, req[c].number)
       IN  IF account_type \notin VALID_ACCOUNT_TYPES
           THEN Raise(c, "ValidationError", <<"Invalid account type", account_type>>)
           ELSE IF cust = None
           THEN Raise(c, "CustomerNotFound", NotFound("Customer", req[c].number))
           ELSE Goto(c, "AccountDAO.next_number", [loc[c] EXCEPT !.cust = cust])
    /\ Reads

CreateAccountNextNumber(c) ==
    /\ pc[c] = "AccountDAO.next_number"
    /\ Goto(c, "AccountDAO.create",
            [loc[c] EXCEPT !.number = AccountDAO_next_number(View(c), SORT_CODE)])
    /\ Reads

\* A mutant of DefaultIfNone: a supplied 0 is taken for no value.
DefaultIfFalsy(value, default) ==
    IF value = None \/ value = Some(0) THEN default ELSE value[1]

\* if interest_rate is None: interest_rate = defaults.get("interest", 0)
DefaultIfNone(value, default) == IF value = None THEN default ELSE value[1]

CreateAccountInsert(c) ==
    /\ pc[c] = "AccountDAO.create"
    /\ CanWrite(c)
    /\ LET s == View(c)
           number == loc[c].number
           customer_number == req[c].number
           account_type == req[c].account_type[1]
           defaults == DEFAULT_RATES(account_type)
           interest_rate == DefaultIfNone(req[c].interest_rate, defaults.interest)
           overdraft_limit == DefaultIfNone(req[c].overdraft_limit, defaults.overdraft)
           s1 == AccountDAO_create(s, SORT_CODE, number, customer_number,
                                   account_type, interest_rate, Today,
                                   overdraft_limit)
           s2 == Audit(s1, SORT_CODE, number, "OCA",
                       <<"Create account for cust", customer_number>>, 0)
       IN  IF \/ AccountKeyTaken(s, SORT_CODE, number)
              \/ ~CustomerKeyTaken(s, SORT_CODE, customer_number)
           THEN Raise(c, "IntegrityError", <<"accounts">>) /\ Writes(c, s)
           ELSE Return(c, AccountDAO_get(s2, SORT_CODE, number)) /\ Writes(c, s2)

-----------------------------------------------------------------------------
(* services.py: update_customer and update_account.  The DAO issues no     *)
(* UPDATE when no field is supplied.                                       *)

UpdateCustomer(c) ==
    /\ pc[c] = "update_customer"
    /\ LET cust == CustomerDAO_get(View(c), SORT_CODE, req[c].number)
           name == req[c].name
       IN  IF cust = None
           THEN Raise(c, "CustomerNotFound", NotFound("Customer", req[c].number))
           ELSE IF name # None /\ Title(name[1]) \notin VALID_TITLES
           THEN Raise(c, "ValidationError", <<"Invalid title", Title(name[1])>>)
           ELSE Goto(c, "CustomerDAO.update", [loc[c] EXCEPT !.cust = cust])
    /\ Reads

UpdateCustomerWrite(c) ==
    /\ pc[c] = "CustomerDAO.update"
    /\ LET s1 == CustomerDAO_update(View(c), SORT_CODE, req[c].number,
                                    req[c].name, req[c].address)
       IN  IF req[c].name = None /\ req[c].address = None
           THEN /\ Return(c, CustomerDAO_get(View(c), SORT_CODE, req[c].number))
                /\ Reads
           ELSE /\ CanWrite(c)
                /\ Return(c, CustomerDAO_get(s1, SORT_CODE, req[c].number))
                /\ Writes(c, s1)

UpdateAccount(c) ==
    /\ pc[c] = "update_account"
    /\ LET acc == AccountDAO_get(View(c), SORT_CODE, req[c].number)
           account_type == req[c].account_type
       IN  IF acc = None
           THEN Raise(c, "AccountNotFound", NotFound("Account", req[c].number))
           ELSE IF account_type # None /\ account_type[1] \notin VALID_ACCOUNT_TYPES
           THEN Raise(c, "ValidationError",
                      <<"Invalid account type", account_type[1]>>)
           ELSE Goto(c, "AccountDAO.update", [loc[c] EXCEPT !.acc = acc])
    /\ Reads

UpdateAccountWrite(c) ==
    /\ pc[c] = "AccountDAO.update"
    /\ LET s1 == AccountDAO_update(View(c), SORT_CODE, req[c].number,
                                   req[c].account_type, req[c].interest_rate,
                                   req[c].overdraft_limit)
       IN  IF /\ req[c].account_type = None
              /\ req[c].interest_rate = None
              /\ req[c].overdraft_limit = None
           THEN /\ Return(c, AccountDAO_get(View(c), SORT_CODE, req[c].number))
                /\ Reads
           ELSE /\ CanWrite(c)
                /\ Return(c, AccountDAO_get(s1, SORT_CODE, req[c].number))
                /\ Writes(c, s1)

-----------------------------------------------------------------------------
(* services.py: delete_account and delete_customer (the cascade calls      *)
(* delete_account once per row of the page get_by_customer returned).      *)

\* AccountDAO.delete, then _audit "ODA".
\* A mutant of DeleteAccountRow: the deletion leaves no audit entry.
DeleteAccountRowSilent(s, number) == AccountDAO_delete(s, SORT_CODE, number)

\* A mutant of DeleteAccountRow: the account's audit entries go with it.
DeleteAccountRowPurges(s, number) ==
    LET kept == [s EXCEPT !.transactions =
                     {t \in @ : t.account_number # number}]
    IN  Audit(AccountDAO_delete(kept, SORT_CODE, number),
              SORT_CODE, number, "ODA", <<"Delete account", number>>, 0)

DeleteAccountRow(s, number) ==
    Audit(AccountDAO_delete(s, SORT_CODE, number), SORT_CODE, number, "ODA",
          <<"Delete account", number>>, 0)

DeleteAccount(c) ==
    /\ pc[c] = "delete_account"
    /\ LET acc == AccountDAO_get(View(c), SORT_CODE, req[c].number)
       IN  IF acc = None
           THEN Raise(c, "AccountNotFound", NotFound("Account", req[c].number))
           ELSE Goto(c, "AccountDAO.delete", [loc[c] EXCEPT !.acc = acc])
    /\ Reads

DeleteAccountWrite(c) ==
    /\ pc[c] = "AccountDAO.delete"
    /\ CanWrite(c)
    /\ Return(c, Some(TRUE))
    /\ Writes(c, DeleteAccountRow(View(c), req[c].number))

DeleteCustomer(c) ==
    /\ pc[c] = "delete_customer"
    /\ LET cust == CustomerDAO_get(View(c), SORT_CODE, req[c].number)
       IN  IF cust = None
           THEN Raise(c, "CustomerNotFound", NotFound("Customer", req[c].number))
           ELSE Goto(c, "cascade.get_by_customer", [loc[c] EXCEPT !.cust = cust])
    /\ Reads

DeleteCustomerList(c) ==
    /\ pc[c] = "cascade.get_by_customer"
    /\ Goto(c, "cascade.for",
            [loc[c] EXCEPT !.accounts =
                AccountDAO_get_by_customer(View(c), SORT_CODE, req[c].number)])
    /\ Reads

\* for acc in accounts: delete_account(conn, acc["number"]) -- its SELECT.
DeleteCustomerLoop(c) ==
    /\ pc[c] = "cascade.for"
    /\ IF loc[c].accounts = <<>>
       THEN Goto(c, "CustomerDAO.delete", loc[c])
       ELSE LET number == Head(loc[c].accounts).number
                acc == AccountDAO_get(View(c), SORT_CODE, number)
            IN  IF acc = None
                THEN Raise(c, "AccountNotFound", NotFound("Account", number))
                ELSE Goto(c, "cascade.delete", [loc[c] EXCEPT !.acc = acc])
    /\ Reads

\* ... and its DELETE and audit entry.
DeleteCustomerAccount(c) ==
    /\ pc[c] = "cascade.delete"
    /\ CanWrite(c)
    /\ Goto(c, "cascade.for", [loc[c] EXCEPT !.accounts = Tail(@)])
    /\ Writes(c, DeleteAccountRow(View(c), Head(loc[c].accounts).number))

\* CustomerDAO.delete: the FOREIGN KEY of accounts forbids deleting a customer
\* row that an account row still references.
DeleteCustomerWrite(c) ==
    /\ pc[c] = "CustomerDAO.delete"
    /\ CanWrite(c)
    /\ LET s == View(c)
           number == req[c].number
           s1 == CustomerDAO_delete(s, SORT_CODE, number)
           s2 == Audit(s1, SORT_CODE, 0, "ODC", <<"Delete customer", number>>, 0)
       IN  IF CustomerKeyTaken(s, SORT_CODE, number)
              /\ HasAccounts(s, SORT_CODE, number)
           THEN Raise(c, "IntegrityError", <<"customers">>) /\ Writes(c, s)
           ELSE Return(c, Some(TRUE)) /\ Writes(c, s2)

-----------------------------------------------------------------------------
(* services.py: transfer_funds and debit_credit.                           *)

Abs(x) == IF x < 0 THEN -x ELSE x

TransferFunds(c) ==
    /\ pc[c] = "transfer_funds"
    /\ Goto(c, "transfer.get_to",
            [loc[c] EXCEPT !.acc = AccountDAO_get(View(c), SORT_CODE, req[c].number)])
    /\ Reads

\* A mutant of MissingSide: the destination is looked at first.
MissingSideToFirst(from_acc, to_acc) ==
    IF to_acc = None THEN "To-account"
    ELSE IF from_acc = None THEN "From-account" ELSE ""

\* if not from_acc: raise ...; if not to_acc: raise ...
MissingSide(from_acc, to_acc) ==
    IF from_acc = None THEN "From-account"
    ELSE IF to_acc = None THEN "To-account" ELSE ""

TransferFundsGetTo(c) ==
    /\ pc[c] = "transfer.get_to"
    /\ LET to_acc == AccountDAO_get(View(c), SORT_CODE, req[c].to_number)
           missing == MissingSide(loc[c].acc, to_acc)
       IN  IF missing = "From-account"
           THEN Raise(c, "AccountNotFound", NotFound("From-account", req[c].number))
           ELSE IF missing = "To-account"
           THEN Raise(c, "AccountNotFound", NotFound("To-account", req[c].to_number))
           ELSE Goto(c, "transfer.update_balance", [loc[c] EXCEPT !.to_acc = to_acc])
    /\ Reads

TransferFundsWrite(c) ==
    /\ pc[c] = "transfer.update_balance"
    /\ CanWrite(c)
    /\ LET from_acc == loc[c].acc[1]
           to_acc == loc[c].to_acc[1]
           from_number == req[c].number
           to_number == req[c].to_number
           amount == req[c].amount
           new_from_avail == from_acc.available_balance - amount
           new_from_actual == from_acc.actual_balance - amount
           s1 == AccountDAO_update_balance(View(c), SORT_CODE, from_number,
                                           new_from_avail, new_from_actual)
           new_to_avail == to_acc.available_balance + amount
           new_to_actual == to_acc.actual_balance + amount
           s2 == AccountDAO_update_balance(s1, SORT_CODE, to_number,
                                           new_to_avail, new_to_actual)
           s3 == Audit(s2, SORT_CODE, from_number, "TFR",
                       <<"Transfer to", to_number>>, amount)
           s4 == Audit(s3, SORT_CODE, to_number, "TFR",
                       <<"Transfer from", from_number>>, amount)
       IN  /\ Return(c, Some([from_balance |-> new_from_actual,
                              to_balance |-> new_to_actual]))
           /\ Writes(c, s4)

\* A mutant of Signed: the flag is ignored.
SignedIgnoresFlag(amount, is_debit) == amount

\* signed = -amount if is_debit else amount
Signed(amount, is_debit) == IF is_debit THEN -amount ELSE amount

\* A mutant of DebitBarred: only one of the two types is barred.
DebitBarredMortgageOnly(acc) == acc.account_type = "MORTGAGE"

\* acc["account_type"] in ("MORTGAGE", "LOAN")
DebitBarred(acc) == acc.account_type \in {"MORTGAGE", "LOAN"}

\* A mutant of Overdrawn: the check lets the balance go one below zero.
OverdrawnBelowMinusOne(acc, signed) == acc.available_balance + signed < -1

\* A mutant of Overdrawn: the overdraft limit extends the funds.
OverdrawnBeyondLimit(acc, signed) ==
    acc.available_balance + acc.overdraft_limit + signed < 0

\* acc["available_balance"] + signed < 0
Overdrawn(acc, signed) == acc.available_balance + signed < 0

DebitCredit(c) ==
    /\ pc[c] = "debit_credit"
    /\ LET acc == AccountDAO_get(View(c), SORT_CODE, req[c].number)
           signed == Signed(req[c].amount, req[c].is_debit)
       IN  IF acc = None
           THEN Raise(c, "AccountNotFound", NotFound("Account", req[c].number))
           ELSE IF req[c].is_debit /\ DebitBarred(acc[1])
           THEN Raise(c, "ValidationError", <<"Cannot debit MORTGAGE/LOAN account">>)
           ELSE IF req[c].is_debit /\ Overdrawn(acc[1], signed)
           THEN Raise(c, "InsufficientFunds", <<"Insufficient funds for debit">>)
           ELSE Goto(c, "debit_credit.update_balance", [loc[c] EXCEPT !.acc = acc])
    /\ Reads

\* A mutant of DebitCreditWrite: the delta is applied to the stored balance
\* (UPDATE ... SET balance = balance + delta) instead of the balance read.
DebitCreditWriteRelative(c) ==
    /\ pc[c] = "debit_credit.update_balance"
    /\ CanWrite(c)
    /\ LET now == AccountDAO_get(View(c), SORT_CODE, req[c].number)
           acc == IF now = None THEN loc[c].acc[1] ELSE now[1]
           signed == Signed(req[c].amount, req[c].is_debit)
           new_avail == acc.available_balance + signed
           new_actual == acc.actual_balance + signed
           s1 == AccountDAO_update_balance(View(c), SORT_CODE, req[c].number,
                                           new_avail, new_actual)
           s2 == Audit(s1, SORT_CODE, req[c].number,
                       IF req[c].is_debit THEN "DEB" ELSE "CRE",
                       <<IF req[c].is_debit THEN "Debit" ELSE "Credit",
                         req[c].amount>>, Abs(signed))
       IN  /\ Return(c, Some([available_balance |-> new_avail,
                              actual_balance |-> new_actual]))
           /\ Writes(c, s2)

DebitCreditWrite(c) ==
    /\ pc[c] = "debit_credit.update_balance"
    /\ CanWrite(c)
    /\ LET acc == loc[c].acc[1]
           number == req[c].number
           signed == Signed(req[c].amount, req[c].is_debit)
           new_avail == acc.available_balance + signed
           new_actual == acc.actual_balance + signed
           s1 == AccountDAO_update_balance(View(c), SORT_CODE, number,
                                           new_avail, new_actual)
           s2 == Audit(s1, SORT_CODE, number,
                       IF req[c].is_debit THEN "DEB" ELSE "CRE",
                       <<IF req[c].is_debit THEN "Debit" ELSE "Credit",
                         req[c].amount>>,
                       Abs(signed))
       IN  /\ Return(c, Some([available_balance |-> new_avail,
                              actual_balance |-> new_actual]))
           /\ Writes(c, s2)

-----------------------------------------------------------------------------
(* api._get_db and the routes' try/except: how a request ends.             *)

Ends(c) ==
    /\ pc' = [pc EXCEPT ![c] = "idle"]
    /\ req' = [req EXCEPT ![c] = NoReq]
    /\ loc' = [loc EXCEPT ![c] = NoLoc]
    /\ out' = [out EXCEPT ![c] = NoOut]
    /\ nreq' = nreq

\* conn.commit(), reached when the route returned: with the engine's value, or
\* with _fail(...) after catching a ServiceError.
Commit(c) ==
    /\ pc[c] \in {"returned", "caught"}
    /\ db' = View(c)
    /\ lock' = IF lock = c THEN 0 ELSE lock
    /\ work' = work
    /\ Ends(c)

\* conn.rollback(), reached on any exception the route did not catch ...
\* A mutant of Rollback: the audit entries outlive the discarded changes.
RollbackKeepsAudit(c) ==
    /\ pc[c] = "raised"
    /\ db' = [db EXCEPT !.transactions = View(c).transactions,
                        !.seq = View(c).seq]
    /\ work' = db'
    /\ lock' = IF lock = c THEN 0 ELSE lock
    /\ Ends(c)
    /\ UNCHANGED nreq

Rollback(c) ==
    /\ pc[c] = "raised"
    /\ db' = db
    /\ lock' = IF lock = c THEN 0 ELSE lock
    /\ work' = IF lock = c THEN db ELSE work
    /\ Ends(c)

\* ... and when conn.commit() itself raises (a store error).
CommitFails(c) ==
    /\ pc[c] \in {"returned", "caught"}
    /\ lock = c
    /\ db' = db
    /\ lock' = 0
    /\ work' = db
    /\ Ends(c)

\* sqlite3.connect(timeout=5): a statement that must write while another
\* connection holds the write lock waits, and raises OperationalError
\* ("database is locked") when the lock is not released in time.
WritesNext(c) ==
    \/ pc[c] \in {"CustomerDAO.create", "AccountDAO.create", "AccountDAO.delete",
                  "cascade.delete", "CustomerDAO.delete",
                  "transfer.update_balance", "debit_credit.update_balance"}
    \/ pc[c] = "CustomerDAO.update"
       /\ ~(req[c].name = None /\ req[c].address = None)
    \/ pc[c] = "AccountDAO.update"
       /\ ~(/\ req[c].account_type = None
            /\ req[c].interest_rate = None
            /\ req[c].overdraft_limit = None)

Busy(c) ==
    /\ WritesNext(c)
    /\ ~CanWrite(c)
    /\ Raise(c, "OperationalError", <<"database is locked">>)
    /\ Reads

-----------------------------------------------------------------------------
(* The specifications: requests served one at a time on one connection,    *)
(* and requests served concurrently, each on its own connection.           *)

Engine(c, draws) ==
    \/ GetCustomer(c) \/ GetAccount(c)
    \/ GetAccountsByCustomer(c) \/ GetAccountsByCustomerList(c)
    \/ CreateCustomer(c) \/ CreditCheckSubmit(c)
    \/ (\E i \in 1..NUM_AGENCIES : SingleAgency(c, i, draws))
    \/ CreditCheckResult(c) \/ CreditCheckTimesOut(c) \/ CreditCheckReturns(c)
    \/ CreateCustomerInsert(c)
    \/ CreateAccount(c) \/ CreateAccountNextNumber(c) \/ CreateAccountInsert(c)
    \/ UpdateCustomer(c) \/ UpdateCustomerWrite(c)
    \/ UpdateAccount(c) \/ UpdateAccountWrite(c)
    \/ DeleteAccount(c) \/ DeleteAccountWrite(c)
    \/ DeleteCustomer(c) \/ DeleteCustomerList(c) \/ DeleteCustomerLoop(c)
    \/ DeleteCustomerAccount(c) \/ DeleteCustomerWrite(c)
    \/ TransferFunds(c) \/ TransferFundsGetTo(c) \/ TransferFundsWrite(c)
    \/ DebitCredit(c) \/ DebitCreditWrite(c)

Request(c, requests, draws) ==
    \/ Start(c, requests) \/ Engine(c, draws)
    \/ Commit(c) \/ CommitFails(c) \/ Rollback(c)

NextSeq == Request(1, Requests, AnyScore)

SpecSeq == Init /\ [][NextSeq]_vars

Next == \E c \in Conns : Request(c, ConcurrentRequests, AnyScore) \/ Busy(c)

Spec == Init /\ [][Next]_vars

\* Account creations, credits and debits with non-negative amounts, served
\* concurrently.
CashRequests ==
    {CreateAccountReq(1, "CURRENT", None, None),
     CreateAccountReq(1, "SAVING", None, Some(5))}
    \cup {DebitCreditReq(n, a, d) : n \in {1, 2}, a \in {0, 1, 2}, d \in BOOLEAN}

CashRequest(c) ==
    \/ Start(c, CashRequests)
    \/ CreateAccount(c) \/ CreateAccountNextNumber(c) \/ CreateAccountInsert(c)
    \/ DebitCredit(c) \/ DebitCreditWrite(c)
    \/ Commit(c) \/ CommitFails(c) \/ Rollback(c)

NextCash == \E c \in Conns : CashRequest(c) \/ Busy(c)

SpecCash == Init /\ [][NextCash]_vars

\* Customer creation alone, one request after another, with the probes' draws
\* taken from both ends of the range.
CreditRequests ==
    {CreateCustomerReq(<<"Mr", "B">>), CreateCustomerReq(<<"King", "John">>)}

NextCredit ==
    \/ Start(1, CreditRequests)
    \/ CreateCustomer(1)
    \/ CreditCheckSubmit(1)
    \/ (\E i \in 1..NUM_AGENCIES : SingleAgency(1, i, Scores))
    \/ CreditCheckResult(1)
    \/ CreditCheckTimesOut(1)
    \/ CreditCheckReturns(1)
    \/ CreateCustomerInsert(1)
    \/ Commit(1) \/ CommitFails(1) \/ Rollback(1)

SpecCredit == Init /\ [][NextCredit]_vars

\* The caller's thread is scheduled fairly: a wait on a future ends, with the
\* result or with the timeout, and the with block is left once the workers
\* have ended.  Nothing is assumed of the probes.
CreditCheckCaller(c) ==
    \/ CreditCheckSubmit(c) \/ CreditCheckResult(c)
    \/ CreditCheckTimesOut(c) \/ CreditCheckReturns(c)

SpecLive == SpecCredit /\ WF_vars(CreditCheckCaller(1))

-----------------------------------------------------------------------------
(* Vocabulary of the properties.  While requests are served one at a time  *)
(* (SpecSeq), db is the store before the call of the request in progress   *)
(* and View(c) the store the call has produced.                            *)

Ended(c) == pc[c] \in {"returned", "caught", "raised"}

AccountRow(s, number) == AccountDAO_get(s, SORT_CODE, number)[1]

AccountExists(s, number) == AccountDAO_get(s, SORT_CODE, number) # None

CustomerExists(s, number) == CustomerDAO_get(s, SORT_CODE, number) # None

\* The audit entries a call appended, in key order, without their keys.
EntryOf(s, id) ==
    LET t == CHOOSE x \in s.transactions : x.id = id
    IN  [account_number |-> t.account_number, trans_type |-> t.trans_type,
         description |-> t.description, amount |-> t.amount]

Appended(before, after) ==
    [i \in 1..(after.seq - before.seq) |-> EntryOf(after, before.seq + i)]

Entry(account_number, trans_type, description, amount) ==
    [account_number |-> account_number, trans_type |-> trans_type,
     description |-> description, amount |-> amount]

-----------------------------------------------------------------------------
\* C1: a successful debit_credit moves available_balance by -amount (debit) or
\* +amount (credit) and actual_balance by the same delta, returns the two new
\* balances, which are the stored ones, and keeps equal balances equal.
C1_DebitCreditAdditive ==
    \A c \in Conns :
        (pc[c] = "returned" /\ req[c].op = "debit_credit") =>
            LET before == AccountRow(db, req[c].number)
                after == AccountRow(View(c), req[c].number)
                delta == IF req[c].is_debit THEN -req[c].amount ELSE req[c].amount
                result == out[c].data[1]
            IN  /\ after.available_balance = before.available_balance + delta
                /\ after.actual_balance = before.actual_balance + delta
                /\ result.available_balance = after.available_balance
                /\ result.actual_balance = after.actual_balance
                /\ before.available_balance = before.actual_balance
                       => after.available_balance = after.actual_balance

\* A debit of a positive amount has returned.
C1_Witness ==
    \E c \in Conns :
        /\ pc[c] = "returned" /\ req[c].op = "debit_credit"
        /\ req[c].is_debit /\ req[c].amount > 0

\* C2: a debit on an account that is neither LOAN nor MORTGAGE fails with
\* InsufficientFunds exactly when amount > available_balance, whatever the
\* overdraft limit and the actual balance; a debit of the whole available
\* balance succeeds and leaves 0; the failure changes nothing in the store.
C2_InsufficientFunds ==
    \A c \in Conns :
        (/\ Ended(c) /\ req[c].op = "debit_credit" /\ req[c].is_debit
         /\ AccountExists(db, req[c].number)
         /\ AccountRow(db, req[c].number).account_type \notin {"LOAN", "MORTGAGE"}) =>
            LET before == AccountRow(db, req[c].number)
            IN  /\ out[c].status = "InsufficientFunds"
                       <=> req[c].amount > before.available_balance
                /\ out[c].status # "InsufficientFunds" => out[c].status = "ok"
                /\ out[c].status = "InsufficientFunds" => View(c) = db
                /\ req[c].amount = before.available_balance =>
                       AccountRow(View(c), req[c].number).available_balance = 0

\* A debit failed for lack of funds that the overdraft limit would have covered.
C2_Witness ==
    \E c \in Conns :
        /\ pc[c] = "caught" /\ out[c].status = "InsufficientFunds"
        /\ LET before == AccountRow(db, req[c].number)
           IN  req[c].amount <= before.available_balance + before.overdraft_limit

\* C3: a debit on an existing LOAN or MORTGAGE account fails with
\* ValidationError for every balance and amount and writes nothing; a credit
\* on such an account succeeds.
C3_LoanMortgageDebitBarred ==
    \A c \in Conns :
        (/\ req[c].op = "debit_credit"
         /\ AccountExists(db, req[c].number)
         /\ AccountRow(db, req[c].number).account_type \in {"LOAN", "MORTGAGE"}) =>
            /\ req[c].is_debit => pc[c] # "debit_credit.update_balance"
            /\ (Ended(c) /\ req[c].is_debit) =>
                   out[c].status = "ValidationError" /\ View(c) = db
            /\ (Ended(c) /\ ~req[c].is_debit) => out[c].status = "ok"

\* A debit the LOAN account's balance covers was refused.
C3_Witness ==
    \E c \in Conns :
        /\ pc[c] = "caught" /\ out[c].status = "ValidationError"
        /\ req[c].op = "debit_credit"
        /\ AccountRow(db, req[c].number).account_type = "LOAN"
        /\ req[c].amount <= AccountRow(db, req[c].number).available_balance

\* C4: transfer_funds between two existing accounts always succeeds, lowers
\* both balances of the source by amount, raises both balances of the
\* destination by amount, and returns the stored actual balances.
C4_TransferMovesAmount ==
    \A c \in Conns :
        (/\ Ended(c) /\ req[c].op = "transfer_funds"
         /\ AccountExists(db, req[c].number)
         /\ AccountExists(db, req[c].to_number)) =>
            LET from_before == AccountRow(db, req[c].number)
                to_before == AccountRow(db, req[c].to_number)
                from_after == AccountRow(View(c), req[c].number)
                to_after == AccountRow(View(c), req[c].to_number)
                amount == req[c].amount
            IN  /\ pc[c] = "returned"
                /\ from_after.available_balance = from_before.available_balance - amount
                /\ from_after.actual_balance = from_before.actual_balance - amount
                /\ to_after.available_balance = to_before.available_balance + amount
                /\ to_after.actual_balance = to_before.actual_balance + amount
                /\ out[c].data[1].from_balance = from_after.actual_balance
                /\ out[c].data[1].to_balance = to_after.actual_balance

\* C5: transfer_funds fails with AccountNotFound when an account is absent,
\* naming the From-account when the source is absent (the destination absent
\* or not) and the To-account when only the destination is; nothing is written.
C5_TransferAccountNotFound ==
    \A c \in Conns :
        (Ended(c) /\ req[c].op = "transfer_funds") =>
            LET no_from == ~AccountExists(db, req[c].number)
                no_to == ~AccountExists(db, req[c].to_number)
            IN  /\ no_from =>
                       /\ out[c].status = "AccountNotFound"
                       /\ out[c].msg = NotFound("From-account", req[c].number)
                /\ (~no_from /\ no_to) =>
                       /\ out[c].status = "AccountNotFound"
                       /\ out[c].msg = NotFound("To-account", req[c].to_number)
                /\ out[c].status = "AccountNotFound" =>
                       (no_from \/ no_to) /\ View(c) = db

\* A transfer between two absent accounts has failed.
C5_Witness ==
    \E c \in Conns :
        /\ pc[c] = "caught" /\ req[c].op = "transfer_funds"
        /\ ~AccountExists(db, req[c].number)
        /\ ~AccountExists(db, req[c].to_number)

\* C6: an operation that fails with a ServiceError (CustomerNotFound,
\* AccountNotFound, InsufficientFunds, ValidationError) has written nothing
\* when it is caught, so the commit that follows leaves the store as it was.
C6_ServiceErrorWritesNothing ==
    \A c \in Conns : pc[c] = "caught" => View(c) = db

\* C7: delete_customer on an existing customer owning N accounts succeeds for
\* every N, leaves neither the customer nor any of the accounts, and appends
\* N ODA entries, one per account, followed by one ODC entry on account 0.
C7_DeleteCustomerCascade ==
    \A c \in Conns :
        (/\ Ended(c) /\ req[c].op = "delete_customer"
         /\ CustomerExists(db, req[c].number)) =>
            LET owned == {a \in db.accounts : a.customer_number = req[c].number}
                N == Cardinality(owned)
                new == Appended(db, View(c))
            IN  /\ pc[c] = "returned"
                /\ ~CustomerExists(View(c), req[c].number)
                /\ View(c).accounts = db.accounts \ owned
                /\ Len(new) = N + 1
                /\ \A a \in owned : \E i \in 1..N :
                       /\ new[i].trans_type = "ODA"
                       /\ new[i].account_number = a.number
                /\ new[N + 1].trans_type = "ODC"
                /\ new[N + 1].account_number = 0

C9_AuditAtomic ==
    [][ /\ \A c \in Conns :
               (Ended(c) /\ pc'[c] = "idle") =>
                   /\ db' = View(c) \/ db' = db
                   /\ pc[c] = "raised" => db' = db
        /\ (\A c \in Conns : ~(Ended(c) /\ pc'[c] = "idle")) => db' = db
      ]_vars

\* An unhandled error is about to discard deleted rows and their entries.
C9_Witness ==
    \E c \in Conns :
        /\ pc[c] = "raised" /\ lock = c
        /\ work.accounts # db.accounts
        /\ work.transactions # db.transactions

\* Entries are kept as they are and new keys are above every old key.
AppendOnly(old, new) ==
    /\ old \subseteq new
    /\ \A t \in new \ old : \A u \in old : t.id > u.id

\* C10: audit entries are only ever appended: a step keeps every entry as it
\* is, in the committed store and in the open transaction, and gives each new
\* entry a key above every existing key.
C10_AuditAppendOnly ==
    [][ /\ AppendOnly(db.transactions, db'.transactions)
        /\ lock' # 0 => AppendOnly(View(lock').transactions, work'.transactions)
      ]_vars

\* The committed trail keeps the entries of an account that is gone.
C10_Witness ==
    \E t, u \in db.transactions :
        /\ t.trans_type = "OCA" /\ u.trans_type = "ODA"
        /\ t.account_number = u.account_number
        /\ u.id > t.id
        /\ ~AccountExists(db, t.account_number)

-----------------------------------------------------------------------------
\* C11: from stores whose accounts all have available_balance = actual_balance,
\* the operations never make the two fields of an account differ, in the
\* committed store or in an open transaction.
C11_BalancesEqual ==
    \A a \in db.accounts \cup work.accounts :
        a.available_balance = a.actual_balance

\* A transfer and a debit or credit have both been committed.
C11_Witness ==
    /\ \E t \in db.transactions : t.trans_type = "TFR"
    /\ \E t \in db.transactions : t.trans_type \in {"DEB", "CRE"}
    /\ \E a \in db.accounts : a.actual_balance # 0

\* C12: units of work on the same account are not kept apart: each stores the
\* balance it read plus its own delta, whatever was committed since it read,
\* and keeps every committed audit entry beside its own; so a unit that read
\* before another one committed overwrites that one's update while the trail
\* shows both.
C12_AbsoluteWrites ==
    \A c \in Conns :
        pc[c] = "returned" =>
            /\ req[c].op = "debit_credit" =>
                   /\ AccountExists(View(c), req[c].number) =>
                          AccountRow(View(c), req[c].number).actual_balance =
                              loc[c].acc[1].actual_balance
                              + (IF req[c].is_debit THEN -req[c].amount
                                                    ELSE req[c].amount)
                   /\ db.transactions \subseteq View(c).transactions
            /\ req[c].op = "transfer_funds" =>
                   /\ AccountExists(View(c), req[c].to_number) =>
                          AccountRow(View(c), req[c].to_number).actual_balance =
                              loc[c].to_acc[1].actual_balance + req[c].amount
                   /\ (/\ AccountExists(View(c), req[c].number)
                       /\ req[c].number # req[c].to_number) =>
                          AccountRow(View(c), req[c].number).actual_balance =
                              loc[c].acc[1].actual_balance - req[c].amount
                   /\ db.transactions \subseteq View(c).transactions

\* A unit of work returns having overwritten a balance that another unit
\* committed after this one had read it: the other's delta is lost, its audit
\* entry is kept.
C12_Witness ==
    \E c \in Conns :
        /\ pc[c] = "returned" /\ req[c].op \in {"debit_credit", "transfer_funds"}
        /\ AccountExists(db, req[c].number)
        /\ LET n == req[c].number
               read == loc[c].acc[1].actual_balance
               committed == AccountRow(db, n).actual_balance
               delta == IF req[c].op = "debit_credit" /\ ~req[c].is_debit
                        THEN req[c].amount ELSE -req[c].amount
           IN  /\ committed # read
               /\ AccountRow(View(c), n).actual_balance = read + delta
               /\ AccountRow(View(c), n).actual_balance # committed + delta
               /\ \E t \in db.transactions : t.account_number = n
               /\ Cardinality({t \in View(c).transactions : t.account_number = n}) >= 2

\* C13: no two customer rows and no two account rows share (sortcode, number),
\* in the committed store or in an open transaction, also when two creations
\* computed the same next number: a creation returns only with a number no
\* committed row holds, and a create_customer or create_account that fails
\* has written no row and no audit entry.
C13_UniqueNumbers ==
    /\ \A s \in {db, work} :
           /\ \A a, b \in s.customers :
                  (a.sortcode = b.sortcode /\ a.number = b.number) => a = b
           /\ \A a, b \in s.accounts :
                  (a.sortcode = b.sortcode /\ a.number = b.number) => a = b
    /\ \A c \in Conns :
           /\ (pc[c] = "returned" /\ req[c].op = "create_customer") =>
                  ~CustomerExists(db, out[c].data[1].number)
           /\ (pc[c] = "returned" /\ req[c].op = "create_account") =>
                  ~AccountExists(db, out[c].data[1].number)
           /\ (/\ pc[c] \in {"caught", "raised"}
               /\ req[c].op \in {"create_customer", "create_account"}) =>
                  View(c) = db

\* A creation failed on the key another creation, which had computed the same
\* number, committed in the meantime.
C13_Witness ==
    \E c \in Conns :
        /\ pc[c] = "raised" /\ out[c].status = "IntegrityError"
        /\ req[c].op = "create_customer"
        /\ CustomerExists(db, loc[c].number)

\* C14: in a population built from the empty one by creations served one after
\* another, with no deletion, the k-th successful create_customer returns
\* number k; failed creations consume no number.
C14_GaplessNumbers ==
    \A c \in Conns :
        (/\ pc[c] = "returned" /\ req[c].op = "create_customer"
         /\ \A t \in db.transactions : t.trans_type # "ODC"
         /\ Cardinality({t \in db.transactions : t.trans_type = "OCC"})
                = Cardinality(db.customers)) =>
            LET k == Cardinality({t \in db.transactions : t.trans_type = "OCC"}) + 1
            IN  /\ out[c].data[1].number = k
                /\ {r.number : r \in View(c).customers} = 1..k

\* The second creation returns after a creation that failed validation and a
\* first one that succeeded, or after two that succeeded.
C14_Witness ==
    \E c \in Conns :
        /\ pc[c] = "returned" /\ req[c].op = "create_customer"
        /\ db.accounts = {}
        /\ Cardinality(db.customers) = 1
        /\ \E t \in db.transactions : t.trans_type = "OCC"
        /\ out[c].data[1].number = 2

\* C15: a newly created customer gets a number above that of every customer
\* created before it, deleted since or not (the audit trail names the numbers
\* once created or deleted); likewise a newly created account.
C15_NumbersNeverReused ==
    \A c \in Conns :
        pc[c] = "returned" =>
            /\ req[c].op = "create_customer" =>
                   /\ \A r \in db.customers : out[c].data[1].number > r.number
                   /\ \A t \in db.transactions :
                          t.trans_type \in {"OCC", "ODC"} =>
                              out[c].data[1].number > t.description[2]
            /\ req[c].op = "create_account" =>
                   /\ \A r \in db.accounts : out[c].data[1].number > r.number
                   /\ \A t \in db.transactions :
                          t.trans_type \in {"OCA", "ODA"} =>
                              out[c].data[1].number > t.account_number

\* C16: every account row references an existing customer row of its sortcode,
\* in the committed store and in an open transaction, whether requests are
\* interleaved or not: no customer goes while an account of theirs remains and
\* no account is added for an absent customer.
C16_ReferentialIntegrity ==
    \A s \in {db, work} :
        \A a \in s.accounts :
            \E r \in s.customers :
                r.sortcode = a.sortcode /\ r.number = a.customer_number

\* The store refused to remove a customer who still owns accounts.
C16_Witness ==
    \E c \in Conns :
        /\ pc[c] = "raised" /\ out[c].status = "IntegrityError"
        /\ req[c].op = "delete_customer"
        /\ \E a \in View(c).accounts : a.customer_number = req[c].number

\* C17: a delete_customer that does not succeed leaves the committed store as
\* it was: none of the accounts it deleted and none of its ODA/ODC entries
\* stay when its unit of work ends.
C17_CascadeAllOrNothing ==
    [][ \A c \in Conns :
            (/\ req[c].op = "delete_customer"
             /\ pc[c] \in {"caught", "raised"}
             /\ pc'[c] = "idle") => db' = db
      ]_vars

-----------------------------------------------------------------------------
\* C18: credit_check never returns a mean over a part of the probes: when
\* create_customer goes on with a score, no wait has timed out and each of
\* the num_agencies probes has returned and contributed its draw once; once
\* a wait has timed out the call can only fail, create_customer then fails
\* with it, nothing is written (no customer row, no OCC entry) and the number
\* it had computed is still the next one.
C18_NoPartialScore ==
    \A c \in Conns :
        /\ (\/ pc[c] = "CustomerDAO.create"
            \/ pc[c] = "returned" /\ req[c].op = "create_customer") =>
               /\ ~loc[c].timed_out
               /\ Len(loc[c].scores) = NUM_AGENCIES
               /\ \A i \in 1..NUM_AGENCIES :
                      /\ loc[c].futures[i] # None
                      /\ loc[c].scores[i] = loc[c].futures[i][1]
        /\ loc[c].timed_out =>
               /\ pc[c] \in {"credit_check.shutdown", "raised"}
               /\ pc[c] = "raised" => out[c].status = "TimeoutError"
        /\ pc[c] \in CreditLabels => lock # c
        /\ (pc[c] = "raised" /\ out[c].status = "TimeoutError") =>
               /\ View(c) = db
               /\ CustomerDAO_next_number(db, SORT_CODE) = loc[c].number

\* create_customer has failed on a timeout although some probes were in hand
\* and the others have returned since.
C18_Witness ==
    \E c \in Conns :
        /\ pc[c] = "raised" /\ out[c].status = "TimeoutError"
        /\ req[c].op = "create_customer"
        /\ Len(loc[c].scores) \in 1..(NUM_AGENCIES - 1)
        /\ \A i \in 1..NUM_AGENCIES : loc[c].futures[i] # None

\* C19: a credit_check that has been called ends, with a score or with the
\* timeout failure, whatever the probes do, provided its own thread runs.
C19_CreditCheckEnds ==
    \A c \in Conns :
        (pc[c] = "credit_check") ~> (pc[c] \notin CreditLabels)

\* C20: with 5 probes, whatever each draws in 1..999 and in whatever order
\* they end, credit_check returns the mean of the five draws rounded down,
\* which is in 1..999, and create_customer stores exactly that value as the
\* customer's credit_score.
C20_TruncatedMean ==
    \A c \in Conns :
        (\/ pc[c] = "CustomerDAO.create"
         \/ pc[c] = "returned" /\ req[c].op = "create_customer") =>
            LET draws == [i \in 1..NUM_AGENCIES |-> loc[c].futures[i][1]]
                total == draws[1] + draws[2] + draws[3] + draws[4] + draws[5]
                score == loc[c].score
            IN  /\ NUM_AGENCIES = 5
                /\ 5 * score <= total /\ total < 5 * score + 5
                /\ score \in 1..999
                /\ pc[c] = "returned" =>
                       /\ out[c].data[1].credit_score = score
                       /\ CustomerDAO_get(View(c), SORT_CODE,
                                          out[c].data[1].number)[1].credit_score = score

\* A customer was created with a mean that had to be rounded down, the probes
\* having drawn different scores.
C20_Witness ==
    \E c \in Conns :
        /\ pc[c] = "returned" /\ req[c].op = "create_customer"
        /\ loc[c].futures[1][1] + loc[c].futures[2][1] + loc[c].futures[3][1]
             + loc[c].futures[4][1] + loc[c].futures[5][1] # 5 * loc[c].score
        /\ loc[c].futures[1] # loc[c].futures[5]

-----------------------------------------------------------------------------
C22_CreateAccount ==
    \A c \in Conns :
        (Ended(c) /\ req[c].op = "create_account") =>
            LET valid == req[c].account_type[1] \in
                             {"CURRENT", "SAVING", "LOAN", "MORTGAGE", "ISA"}
                present == CustomerExists(db, req[c].number)
                numbers == {a.number : a \in db.accounts}
                next == IF numbers = {} THEN 1
                        ELSE 1 + CHOOSE n \in numbers : \A m \in numbers : m <= n
            IN  /\ ~valid => out[c].status = "ValidationError" /\ View(c) = db
                /\ (valid /\ ~present) =>
                       out[c].status = "CustomerNotFound" /\ View(c) = db
                /\ (valid /\ present) =>
                       /\ pc[c] = "returned"
                       /\ View(c).customers = db.customers
                       /\ \E a \in View(c).accounts :
                              /\ View(c).accounts = db.accounts \cup {a}
                              /\ a \notin db.accounts
                              /\ a = out[c].data[1]
                              /\ a.number = next
                              /\ a.customer_number = req[c].number
                              /\ a.sortcode = SORT_CODE
                              /\ a.account_type = req[c].account_type[1]
                              /\ a.available_balance = 0
                              /\ a.actual_balance = 0

\* An account was opened after an account with a lower number had been
\* deleted: the new number follows the highest one, not the count.
C22_Witness ==
    \E c \in Conns :
        /\ pc[c] = "returned" /\ req[c].op = "create_account"
        /\ out[c].data[1].number > Cardinality(db.accounts) + 1

\* C23: an account created without an explicit interest rate gets its type's
\* default (ISA 250, SAVING 150, LOAN 750, MORTGAGE 450, CURRENT 0) and one
\* created without an explicit overdraft limit gets 0; an explicit value,
\* 0 included, is stored as given.
C23_DefaultRates ==
    \A c \in Conns :
        (pc[c] = "returned" /\ req[c].op = "create_account") =>
            LET type == req[c].account_type[1]
                default == CASE type = "ISA" -> 250
                             [] type = "SAVING" -> 150
                             [] type = "LOAN" -> 750
                             [] type = "MORTGAGE" -> 450
                             [] type = "CURRENT" -> 0
                stored == AccountRow(View(c), out[c].data[1].number)
            IN  /\ stored = out[c].data[1]
                /\ stored.interest_rate =
                       IF req[c].interest_rate = None THEN default
                       ELSE req[c].interest_rate[1]
                /\ stored.overdraft_limit =
                       IF req[c].overdraft_limit = None THEN 0
                       ELSE req[c].overdraft_limit[1]

\* A LOAN account was created with an explicit interest rate of 0.
C23_Witness ==
    \E c \in Conns :
        /\ pc[c] = "returned" /\ req[c].op = "create_account"
        /\ req[c].account_type = Some("LOAN") /\ req[c].interest_rate = Some(0)
        /\ out[c].data[1].interest_rate = 0

\* A MORTGAGE account was created without an explicit rate and holds 450.
C23_WitnessDefault ==
    \E c \in Conns :
        /\ pc[c] = "returned" /\ req[c].op = "create_account"
        /\ req[c].account_type = Some("MORTGAGE") /\ req[c].interest_rate = None
        /\ out[c].data[1].interest_rate = 450

\* C24: update_customer and update_account change only the supplied fields
\* of the addressed row: a field not supplied keeps its value, a call with no
\* field leaves the row as it was, the customer's number, credit score and
\* review date and the account's number, owner, opened date and balances
\* never change, no other row is touched, no audit entry is written, and a
\* failing update changes nothing.
C24_UpdateFrame ==
    \A c \in Conns :
        /\ (Ended(c) /\ req[c].op \in {"update_customer", "update_account"}
                     /\ pc[c] # "returned") => View(c) = db
        /\ (pc[c] = "returned" /\ req[c].op = "update_customer") =>
               /\ View(c).accounts = db.accounts
               /\ View(c).transactions = db.transactions
               /\ \A r \in db.customers :
                      IF r.number = req[c].number
                      THEN [r EXCEPT !.name = IF req[c].name = None THEN @
                                              ELSE req[c].name[1],
                                     !.address = IF req[c].address = None THEN @
                                                 ELSE req[c].address[1]]
                               \in View(c).customers
                      ELSE r \in View(c).customers
               /\ Cardinality(View(c).customers) = Cardinality(db.customers)
               /\ (req[c].name = None /\ req[c].address = None) => View(c) = db
        /\ (pc[c] = "returned" /\ req[c].op = "update_account") =>
               /\ View(c).customers = db.customers
               /\ View(c).transactions = db.transactions
               /\ \A r \in db.accounts :
                      IF r.number = req[c].number
                      THEN [r EXCEPT
                              !.account_type =
                                  IF req[c].account_type = None THEN @
                                  ELSE req[c].account_type[1],
                              !.interest_rate =
                                  IF req[c].interest_rate = None THEN @
                                  ELSE req[c].interest_rate[1],
                              !.overdraft_limit =
                                  IF req[c].overdraft_limit = None THEN @
                                  ELSE req[c].overdraft_limit[1]]
                               \in View(c).accounts
                      ELSE r \in View(c).accounts
               /\ Cardinality(View(c).accounts) = Cardinality(db.accounts)
               /\ (/\ req[c].account_type = None
                   /\ req[c].interest_rate = None
                   /\ req[c].overdraft_limit = None) => View(c) = db

\* A customer's address alone was changed while a second customer exists.
C24_Witness ==
    \E c \in Conns :
        /\ pc[c] = "returned" /\ req[c].op = "update_customer"
        /\ req[c].name = None /\ req[c].address # None
        /\ View(c) # db
        /\ Cardinality(db.customers) = 2

\* C25: get_customer with number 0 returns some existing customer, with a
\* number at or above the customer sentinel the highest-numbered customer,
\* and with any other number the customer with exactly that key; it fails
\* with CustomerNotFound when there is none, which includes 0 and the
\* sentinel on an empty population.  get_account with a number at or above
\* 99999999 returns the highest-numbered account and otherwise the account
\* with exactly that key, failing with AccountNotFound when absent; 0 has no
\* special meaning for accounts.
C25_GetBySentinel ==
    \A c \in Conns :
        /\ (Ended(c) /\ req[c].op = "get_customer") =>
               LET number == req[c].number
                   rows == db.customers
                   hits == IF number = 0 THEN rows
                           ELSE IF number >= CUSTOMER_LAST
                           THEN {r \in rows : \A q \in rows : q.number <= r.number}
                           ELSE {r \in rows : r.number = number}
               IN  IF hits = {}
                   THEN pc[c] = "caught" /\ out[c].status = "CustomerNotFound"
                   ELSE pc[c] = "returned" /\ out[c].data[1] \in hits
        /\ (Ended(c) /\ req[c].op = "get_account") =>
               LET number == req[c].number
                   rows == db.accounts
                   hits == IF number >= 99999999
                           THEN {r \in rows : \A q \in rows : q.number <= r.number}
                           ELSE {r \in rows : r.number = number}
               IN  IF hits = {}
                   THEN pc[c] = "caught" /\ out[c].status = "AccountNotFound"
                   ELSE pc[c] = "returned" /\ out[c].data[1] \in hits

\* The sentinel returned customer 2 of two customers.
C25_Witness ==
    \E c \in Conns :
        /\ pc[c] = "returned" /\ req[c].op = "get_customer"
        /\ req[c].number >= CUSTOMER_LAST
        /\ Cardinality(db.customers) = 2
        /\ out[c].data[1].number = 2

\* get_account(0) found nothing although accounts exist.
C25_WitnessZero ==
    \E c \in Conns :
        /\ pc[c] = "caught" /\ req[c].op = "get_account" /\ req[c].number = 0
        /\ db.accounts # {}

\* C26: get_accounts_by_customer fails with CustomerNotFound when the
\* customer does not exist; otherwise it returns only accounts owned by that
\* customer, in strictly ascending order of account number, at most 20 of
\* them, and when the customer owns more than 20 the 20 lowest-numbered.
C26_AccountsByCustomer ==
    \A c \in Conns :
        (Ended(c) /\ req[c].op = "get_accounts_by_customer") =>
            IF ~CustomerExists(db, req[c].number)
            THEN pc[c] = "caught" /\ out[c].status = "CustomerNotFound"
            ELSE LET owned == {a \in db.accounts :
                                  a.customer_number = req[c].number}
                     page == out[c].data
                     listed == {page[i] : i \in 1..Len(page)}
                 IN  /\ pc[c] = "returned"
                     /\ listed \subseteq owned
                     /\ \A i \in 1..(Len(page) - 1) :
                            page[i].number < page[i + 1].number
                     /\ Len(page) <= 20
                     /\ Len(page) = IF Cardinality(owned) < 20
                                    THEN Cardinality(owned) ELSE 20
                     /\ \A a \in owned \ listed :
                            \A b \in listed : b.number < a.number

\* A customer with more than 20 accounts was listed: 20 rows came back.
C26_Witness ==
    \E c \in Conns :
        /\ pc[c] = "returned" /\ req[c].op = "get_accounts_by_customer"
        /\ Cardinality({a \in db.accounts :
                           a.customer_number = req[c].number}) > 20
        /\ Len(out[c].data) = 20

\* C27: debit_credit only moves money in the direction of its flag, for every
\* integer amount the engine accepts: a successful debit never increases and
\* a successful credit never decreases the account's balances, so a negative
\* amount is not applied as a movement in the opposite direction.
C27_MovesInFlagDirection ==
    \A c \in Conns :
        (pc[c] = "returned" /\ req[c].op = "debit_credit") =>
            LET before == AccountRow(db, req[c].number)
                after == AccountRow(View(c), req[c].number)
            IN  IF req[c].is_debit
                THEN /\ after.available_balance <= before.available_balance
                     /\ after.actual_balance <= before.actual_balance
                ELSE /\ after.available_balance >= before.available_balance
                     /\ after.actual_balance >= before.actual_balance

\* The sum of a balance column over all account rows of a store.
RECURSIVE TotalOver(_, _)
TotalOver(rows, column) ==
    IF rows = {} THEN 0
    ELSE LET r == CHOOSE x \in rows : TRUE
         IN  (IF column = "actual" THEN r.actual_balance
              ELSE r.available_balance) + TotalOver(rows \ {r}, column)

\* C28: transfer_funds conserves money: for every pair of existing account
\* numbers (from, to) and every amount, the sum of actual_balance over all
\* accounts, and likewise of available_balance, is the same after a
\* successful transfer as before it.
C28_TransferConserves ==
    \A c \in Conns :
        (pc[c] = "returned" /\ req[c].op = "transfer_funds") =>
            /\ TotalOver(View(c).accounts, "actual") = TotalOver(db.accounts, "actual")
            /\ TotalOver(View(c).accounts, "available") =
                   TotalOver(db.accounts, "available")

\* C29: in a history made only of account creations, credits and debits with
\* non-negative amounts, served one after another or interleaved, the
\* available_balance of every account is >= 0 in every committed state, also
\* when two concurrent debits both pass the sufficiency check on the same
\* stale balance.
C29_AvailableNeverNegative == \A a \in db.accounts : a.available_balance >= 0

\* Two debits of 1 on account 1 are committed without any credit, which the
\* balances of the initial stores allow only when the second passed its
\* check on the balance the first had already spent.
C29_Witness ==
    /\ AccountExists(db, 1)
    /\ Cardinality({t \in db.transactions :
                       /\ t.account_number = 1
                       /\ t.trans_type = "DEB"
                       /\ t.amount = 1}) = 2
    /\ \A t \in db.transactions : t.trans_type # "CRE"

\* C30: every DEB, CRE and TFR audit entry records a change applied to an
\* account row existing at that time: per account number the committed
\* entries, in key order, follow (OCA, any number of DEB/CRE/TFR, ODA)
\* repeated, so no money-movement entry is committed for an account after its
\* ODA and before a later OCA, also when the movement interleaves with a
\* concurrent delete_account of the same account.
C30_NoMovementAfterDelete ==
    \A t \in db.transactions, u \in db.transactions :
        (/\ t.trans_type \in {"DEB", "CRE", "TFR"}
         /\ u.trans_type = "ODA"
         /\ u.account_number = t.account_number
         /\ u.id < t.id) =>
            \E o \in db.transactions :
                /\ o.trans_type = "OCA"
                /\ o.account_number = t.account_number
                /\ u.id < o.id /\ o.id < t.id

====
